---- MODULE Spec2Model ----
(***************************************************************************)
(* Model of the useWebSocket hook (src/unnamed/part_002): the connection   *)
(* lifecycle (connect, keepalive, reconnect on close), the message router, *)
(* the printer_status merge and the debounced cache invalidation.          *)
(*                                                                         *)
(* Every handler of the hook is one action.  The browser is the            *)
(* environment: it delivers open/message/error/close events of each        *)
(* WebSocket, fires timers when their delay has elapsed, runs animation    *)
(* frame callbacks, and runs the effect (attach) and its cleanup (detach). *)
(* Time is kept as the remaining delay of every armed timer.               *)
(***************************************************************************)
EXTENDS Integers, Sequences, FiniteSets, TLC

\* ------------------------------------------------------------------ bounds
MaxHandles == 3      \* WebSocket objects constructed in one run
MaxAttach == 2       \* runs of the effect (attach) in one run
MaxFrames == 2       \* inbound frames delivered in one run
MaxSent == 1         \* frames recorded in the transmit log
MaxInvalidated == 2  \* invalidations of one key in a run with a stream of frames

\* ------------------------------------------------------- program constants
ReconnectDelay == 3000
PingInterval == 30000
InvalidateDelay == 100

\* A timer that is not armed (cleared, fired, or never set).
NoTimer == 0 - 1
\* Granularity of the arrival times inside one coalescing window.
Quantum == InvalidateDelay \div 2

\* ------------------------------------------------------------ data domains
PrinterIds == {7, 8}
Fields == {"wifi_signal", "state"}
Absent == "absent"          \* the field is not in the object
Null == "null"              \* JSON null
FieldValues(f) == IF f = "wifi_signal" THEN {"-42", "-50"} ELSE {"IDLE", "RUNNING"}
Undefined == [f \in Fields |-> "undefined"]   \* no object at all (undefined)
Payloads == {p \in [Fields -> {Absent, Null, "-42", "-50", "IDLE", "RUNNING"}] :
               \A f \in Fields : p[f] \in {Absent, Null} \cup FieldValues(f)}
EmptyObject == [f \in Fields |-> Absent]
QueryKeys == {"archives", "archiveStats"}
MessageTypes == {"printer_status", "print_complete", "archive_created",
                 "archive_updated", "pong", "unknown"}

\* What event.data of an inbound frame decodes to: text JSON.parse rejects,
\* the JSON value null, a JSON scalar, or a JSON object.
Frames ==
    {[kind |-> "malformed", type |-> "", printer_id |-> 0, data |-> Undefined],
     [kind |-> "null", type |-> "", printer_id |-> 0, data |-> Undefined],
     [kind |-> "scalar", type |-> "", printer_id |-> 0, data |-> Undefined]}
    \cup [kind : {"object"}, type : {"printer_status"},
          printer_id : PrinterIds \cup {0}, data : Payloads \cup {Undefined}]
    \cup [kind : {"object"}, type : MessageTypes \ {"printer_status"},
          printer_id : {0}, data : {Undefined}]

NoFrame == [kind |-> "none", type |-> "", printer_id |-> 0, data |-> Undefined]

VARIABLES
    attached,               \* the effect has run and its cleanup has not
    attachCount,            \* runs of the effect so far
    handles,                \* every WebSocket constructed, in order
    wsRef,                  \* wsRef.current: 0 (null) or an index of handles
    reconnectTimeoutRef,    \* reconnectTimeoutRef.current: 0 (null) or a timer id
    reconnectTimer,         \* remaining delay of the timer armed by handle h's onclose
    isConnected,            \* the published flag
    pendingInvalidations,   \* the Set, in insertion order
    invalidationTimeoutRef, \* invalidationTimeoutRef.current: 0 (null) or 1 (a timer id)
    flushTimer,             \* remaining delay of the invalidation timeout
    orphanTimeouts,         \* armed invalidation timeouts that were replaced in
                            \* invalidationTimeoutRef without being cleared
    rafQueue,               \* callbacks given to requestAnimationFrame, not yet run
    cache,                  \* query data at ['printerStatus', id]
    invalidated,            \* invalidateQueries calls so far, per key
    sent,                   \* frames handed to ws.send, in order
    frameCount,             \* inbound frames delivered so far
    statusFrames,           \* the printer_status frames given to setQueryData, in
                            \* delivery order, each with the socket it came on
    lastSend,               \* what the latest sendMessage call did
    lastLifecycle,          \* the most recent of the open/close/error events
    lastFrame,              \* the inbound frame delivered latest
    lastOpenClose,          \* the most recent of the open/close events
    lastClose,              \* whether the socket of the latest close event, if no
                            \* open event came after it, had opened
    requests,               \* the debouncedInvalidate calls since the latest flush,
                            \* each with the time since it was made
    lastRun                 \* the animation frame callback run latest

vars == <<attached, attachCount, handles, wsRef, reconnectTimeoutRef, reconnectTimer,
          isConnected, pendingInvalidations, invalidationTimeoutRef, flushTimer,
          orphanTimeouts, rafQueue, cache, invalidated, sent, frameCount, statusFrames,
          lastSend, lastLifecycle, lastFrame, lastOpenClose, lastClose, requests,
          lastRun>>

connVars == <<handles, wsRef, reconnectTimeoutRef, reconnectTimer, isConnected>>
coalescerVars == <<pendingInvalidations, invalidationTimeoutRef, flushTimer,
                   orphanTimeouts, rafQueue, invalidated>>
histVars == <<frameCount, statusFrames, lastSend, lastLifecycle, lastFrame, lastOpenClose,
              lastClose,
              requests, lastRun>>

HandleIds == 1..Len(handles)

Init ==
    /\ attached = FALSE
    /\ attachCount = 0
    /\ handles = <<>>
    /\ wsRef = 0
    /\ reconnectTimeoutRef = 0
    /\ reconnectTimer = [h \in 1..MaxHandles |-> NoTimer]
    /\ isConnected = FALSE
    /\ pendingInvalidations = <<>>
    /\ invalidationTimeoutRef = 0
    /\ flushTimer = NoTimer
    /\ orphanTimeouts = 0
    /\ rafQueue = <<>>
    /\ cache = [p \in PrinterIds |-> Undefined]
    /\ invalidated = [k \in QueryKeys |-> 0]
    /\ sent = <<>>
    /\ frameCount = 0
    /\ statusFrames = <<>>
    /\ lastSend = "none"
    /\ lastLifecycle = "none"
    /\ lastFrame = NoFrame
    /\ lastOpenClose = "none"
    /\ lastClose = "none"
    /\ requests = <<>>
    /\ lastRun = [keys |-> <<>>, requests |-> <<>>]

\* ------------------------------------------------------------- connection

\* new WebSocket(wsUrl) with `let pingInterval = null`.
NewWebSocket == [readyState |-> "CONNECTING", pingInterval |-> NoTimer, closeFired |-> FALSE]

\* wsRef.current?.readyState === WebSocket.OPEN
RefIsOpen(hs, ref) == ref # 0 /\ hs[ref].readyState = "OPEN"

\* connect(): returns early when the referenced socket is OPEN, otherwise
\* constructs a socket and stores it in wsRef.
Connect(hs, ref) ==
    IF RefIsOpen(hs, ref)
    THEN [handles |-> hs, wsRef |-> ref]
    ELSE [handles |-> Append(hs, NewWebSocket), wsRef |-> Len(hs) + 1]

\* connect() can run within the bound on constructed sockets.
CanConnect == RefIsOpen(handles, wsRef) \/ Len(handles) < MaxHandles

\* WebSocket.close(): starts the closing handshake of a socket that is
\* CONNECTING or OPEN, and does nothing on one that is CLOSING or CLOSED.
WsClose(rs) == IF rs \in {"CONNECTING", "OPEN"} THEN "CLOSING" ELSE rs

\* The effect body: connect().
Attach ==
    /\ ~attached
    /\ attachCount < MaxAttach
    /\ CanConnect
    /\ attached' = TRUE
    /\ attachCount' = attachCount + 1
    /\ handles' = Connect(handles, wsRef).handles
    /\ wsRef' = Connect(handles, wsRef).wsRef
    /\ UNCHANGED <<reconnectTimeoutRef, reconnectTimer, isConnected>>
    /\ UNCHANGED <<coalescerVars, cache, sent, histVars>>

\* The effect cleanup: clears the referenced reconnect timer and the
\* invalidation timeout, and closes the referenced socket.  No ref is reset.
Detach ==
    /\ attached
    /\ attached' = FALSE
    /\ reconnectTimer' = IF reconnectTimeoutRef # 0
                         THEN [reconnectTimer EXCEPT ![reconnectTimeoutRef] = NoTimer]
                         ELSE reconnectTimer
    /\ flushTimer' = IF invalidationTimeoutRef # 0 THEN NoTimer ELSE flushTimer
    /\ handles' = IF wsRef # 0
                  THEN [handles EXCEPT ![wsRef].readyState = WsClose(@)]
                  ELSE handles
    /\ UNCHANGED <<attachCount, wsRef, reconnectTimeoutRef, isConnected>>
    /\ UNCHANGED <<pendingInvalidations, invalidationTimeoutRef, orphanTimeouts, rafQueue,
                   invalidated>>
    /\ UNCHANGED <<cache, sent, histVars>>

\* ws.onopen: publishes connected and starts the ping interval.
OnOpen(h) ==
    /\ h \in HandleIds
    /\ handles[h].readyState = "CONNECTING"
    /\ handles' = [handles EXCEPT ![h].readyState = "OPEN",
                                  ![h].pingInterval = PingInterval]
    /\ isConnected' = TRUE
    /\ lastLifecycle' = "open"
    /\ lastOpenClose' = "open"
    /\ lastClose' = "none"
    /\ UNCHANGED <<attached, attachCount, wsRef, reconnectTimeoutRef, reconnectTimer>>
    /\ UNCHANGED <<coalescerVars, cache, sent, frameCount, statusFrames, lastSend, lastFrame, requests,
                   lastRun>>

\* Mutant of OnClose: the close handler arms no reconnect timer.
OnCloseNoReconnect(h) ==
    /\ h \in HandleIds
    /\ ~handles[h].closeFired
    /\ handles' = [handles EXCEPT ![h].readyState = "CLOSED",
                                  ![h].pingInterval = NoTimer,
                                  ![h].closeFired = TRUE]
    /\ isConnected' = FALSE
    /\ wsRef' = 0
    /\ lastLifecycle' = "close"
    /\ lastOpenClose' = "close"
    /\ lastClose' = IF handles[h].pingInterval = NoTimer THEN "unopened" ELSE "opened"
    /\ UNCHANGED <<attached, attachCount, reconnectTimer, reconnectTimeoutRef>>
    /\ UNCHANGED <<coalescerVars, cache, sent, frameCount, statusFrames, lastSend, lastFrame, requests,
                   lastRun>>

\* Mutant of OnClose: the ping interval of the socket is left running.
OnCloseKeepsInterval(h) ==
    /\ h \in HandleIds
    /\ ~handles[h].closeFired
    /\ handles' = [handles EXCEPT ![h].readyState = "CLOSED",
                                  ![h].closeFired = TRUE]
    /\ isConnected' = FALSE
    /\ wsRef' = 0
    /\ reconnectTimer' = [reconnectTimer EXCEPT ![h] = ReconnectDelay]
    /\ reconnectTimeoutRef' = h
    /\ lastLifecycle' = "close"
    /\ lastOpenClose' = "close"
    /\ lastClose' = IF handles[h].pingInterval = NoTimer THEN "unopened" ELSE "opened"
    /\ UNCHANGED <<attached, attachCount>>
    /\ UNCHANGED <<coalescerVars, cache, sent, frameCount, statusFrames, lastSend, lastFrame, requests,
                   lastRun>>

\* Mutant of OnClose: the reconnect timer is armed inside the test of
\* pingInterval, so only for a socket that had opened.
OnCloseOnlyAfterOpen(h) ==
    /\ h \in HandleIds
    /\ ~handles[h].closeFired
    /\ handles' = [handles EXCEPT ![h].readyState = "CLOSED",
                                  ![h].pingInterval = NoTimer,
                                  ![h].closeFired = TRUE]
    /\ isConnected' = FALSE
    /\ wsRef' = 0
    /\ reconnectTimer' = IF handles[h].pingInterval # NoTimer
                         THEN [reconnectTimer EXCEPT ![h] = ReconnectDelay]
                         ELSE reconnectTimer
    /\ reconnectTimeoutRef' = IF handles[h].pingInterval # NoTimer
                              THEN h
                              ELSE reconnectTimeoutRef
    /\ lastLifecycle' = "close"
    /\ lastOpenClose' = "close"
    /\ lastClose' = IF handles[h].pingInterval = NoTimer THEN "unopened" ELSE "opened"
    /\ UNCHANGED <<attached, attachCount>>
    /\ UNCHANGED <<coalescerVars, cache, sent, frameCount, statusFrames, lastSend, lastFrame, requests,
                   lastRun>>

\* ws.onclose: stops the ping interval, publishes disconnected, drops the
\* reference and arms the reconnect timer.  The browser delivers it once per
\* socket, with readyState CLOSED.
OnClose(h) ==
    /\ h \in HandleIds
    /\ ~handles[h].closeFired
    /\ handles' = [handles EXCEPT ![h].readyState = "CLOSED",
                                  ![h].pingInterval = NoTimer,
                                  ![h].closeFired = TRUE]
    /\ isConnected' = FALSE
    /\ wsRef' = 0
    /\ reconnectTimer' = [reconnectTimer EXCEPT ![h] = ReconnectDelay]
    /\ reconnectTimeoutRef' = h
    /\ lastLifecycle' = "close"
    /\ lastOpenClose' = "close"
    /\ lastClose' = IF handles[h].pingInterval = NoTimer THEN "unopened" ELSE "opened"
    /\ UNCHANGED <<attached, attachCount>>
    /\ UNCHANGED <<coalescerVars, cache, sent, frameCount, statusFrames, lastSend, lastFrame, requests,
                   lastRun>>

\* Mutant of OnError: the error handler also publishes disconnected.
OnErrorClearsFlag(h) ==
    /\ h \in HandleIds
    /\ handles[h].readyState \in {"CONNECTING", "OPEN"}
    /\ handles' = [handles EXCEPT ![h].readyState = WsClose("CLOSED")]
    /\ isConnected' = FALSE
    /\ lastLifecycle' = "error"
    /\ UNCHANGED <<attached, attachCount, wsRef, reconnectTimeoutRef, reconnectTimer>>
    /\ UNCHANGED <<coalescerVars, cache, sent, frameCount, statusFrames, lastSend, lastFrame,
                   lastOpenClose, lastClose, requests, lastRun>>

\* Mutant of OnError: the error handler itself arms a reconnect timer.
OnErrorReconnects(h) ==
    /\ h \in HandleIds
    /\ handles[h].readyState \in {"CONNECTING", "OPEN"}
    /\ handles' = [handles EXCEPT ![h].readyState = WsClose("CLOSED")]
    /\ reconnectTimer' = [reconnectTimer EXCEPT ![h] = ReconnectDelay]
    /\ reconnectTimeoutRef' = h
    /\ lastLifecycle' = "error"
    /\ UNCHANGED <<attached, attachCount, wsRef, isConnected>>
    /\ UNCHANGED <<coalescerVars, cache, sent, frameCount, statusFrames, lastSend, lastFrame,
                   lastOpenClose, lastClose, requests, lastRun>>

\* ws.onerror: ws.close().  The browser fires error on a failed connection
\* after setting readyState to CLOSED and before firing close.
OnError(h) ==
    /\ h \in HandleIds
    /\ handles[h].readyState \in {"CONNECTING", "OPEN"}
    /\ handles' = [handles EXCEPT ![h].readyState = WsClose("CLOSED")]
    /\ lastLifecycle' = "error"
    /\ UNCHANGED <<attached, attachCount, wsRef, reconnectTimeoutRef, reconnectTimer,
                   isConnected>>
    /\ UNCHANGED <<coalescerVars, cache, sent, frameCount, statusFrames, lastSend, lastFrame,
                   lastOpenClose, lastClose, requests, lastRun>>

\* The reconnect timeout callback: connect().
ReconnectFire(h) ==
    /\ h \in HandleIds
    /\ reconnectTimer[h] = 0
    /\ CanConnect
    /\ reconnectTimer' = [reconnectTimer EXCEPT ![h] = NoTimer]
    /\ handles' = Connect(handles, wsRef).handles
    /\ wsRef' = Connect(handles, wsRef).wsRef
    /\ UNCHANGED <<attached, attachCount, reconnectTimeoutRef, isConnected>>
    /\ UNCHANGED <<coalescerVars, cache, sent, histVars>>

\* ws.send(frame) on socket h, as the transmit log records it: the log keeps
\* the first MaxSent frames.
Transmit(log, h, type) ==
    IF Len(log) < MaxSent THEN Append(log, [h |-> h, type |-> type]) ELSE log

\* Mutant of SendMessage: transmits on the referenced socket whatever its
\* readyState.
SendMessageAnyState ==
    /\ IF wsRef # 0
       THEN /\ sent' = Transmit(sent, wsRef, "user")
            /\ lastSend' = "transmitted"
       ELSE /\ sent' = sent
            /\ lastSend' = "dropped"
    /\ UNCHANGED <<attached, attachCount, connVars, coalescerVars, cache, frameCount, statusFrames,
                   lastLifecycle, lastFrame, lastOpenClose, lastClose, requests, lastRun>>

\* sendMessage(message): transmits on the referenced socket when it is OPEN
\* and does nothing otherwise.
SendMessage ==
    /\ IF RefIsOpen(handles, wsRef)
       THEN /\ sent' = Transmit(sent, wsRef, "user")
            /\ lastSend' = "transmitted"
       ELSE /\ sent' = sent
            /\ lastSend' = "dropped"
    /\ UNCHANGED <<attached, attachCount, connVars, coalescerVars, cache, frameCount, statusFrames,
                   lastLifecycle, lastFrame, lastOpenClose, lastClose, requests, lastRun>>

\* The setInterval callback of socket h: pings when the socket is OPEN; the
\* interval stays armed.
PingFire(h) ==
    /\ h \in HandleIds
    /\ handles[h].pingInterval = 0
    /\ handles' = [handles EXCEPT ![h].pingInterval = PingInterval]
    /\ sent' = IF handles[h].readyState = "OPEN" THEN Transmit(sent, h, "ping") ELSE sent
    /\ UNCHANGED <<attached, attachCount, wsRef, reconnectTimeoutRef, reconnectTimer,
                   isConnected>>
    /\ UNCHANGED <<coalescerVars, cache, histVars>>

\* ---------------------------------------------------------------- merger

IsNullish(v) == v \in {Null, Absent, "undefined"}

\* { ...old, ...message.data }: an own property of data wins, null included.
Spread(old, data) ==
    [f \in Fields |->
        IF data # Undefined /\ data[f] # Absent THEN data[f]
        ELSE IF old # Undefined THEN old[f]
        ELSE Absent]

\* Mutant of Merge: the spread alone, without keeping the last wifi_signal.
MergeNoSticky(old, data) == Spread(old, data)

\* Mutant of Merge: the spread in the other order, where the old snapshot's
\* value of a field wins.
MergeOldWins(old, data) ==
    LET merged == Spread(data, old) IN
    IF IsNullish(merged["wifi_signal"]) /\ old # Undefined
                                         /\ ~IsNullish(old["wifi_signal"])
    THEN [merged EXCEPT !["wifi_signal"] = old["wifi_signal"]]
    ELSE merged

\* Mutant of Merge: the snapshot is replaced by the data, the old snapshot
\* is not read.
MergeReplaces(old, data) == Spread(Undefined, data)

\* Mutant of Merge: a field that the data gives with the value the snapshot
\* already has is set to null.
MergeNullsRepeated(old, data) ==
    LET merged == [f \in Fields |->
                      IF /\ old # Undefined
                         /\ data # Undefined
                         /\ ~IsNullish(data[f])
                         /\ data[f] = old[f]
                      THEN Null
                      ELSE Spread(old, data)[f]] IN
    IF IsNullish(merged["wifi_signal"]) /\ old # Undefined
                                         /\ ~IsNullish(old["wifi_signal"])
    THEN [merged EXCEPT !["wifi_signal"] = old["wifi_signal"]]
    ELSE merged

\* Mutant of Merge: the last known wifi_signal is kept only when the merged
\* object has no wifi_signal at all, not when it has null.
MergeStickyWhenMissing(old, data) ==
    LET merged == Spread(old, data) IN
    IF merged["wifi_signal"] \in {Absent, "undefined"} /\ old # Undefined
                                                       /\ ~IsNullish(old["wifi_signal"])
    THEN [merged EXCEPT !["wifi_signal"] = old["wifi_signal"]]
    ELSE merged

\* Mutant of Merge: a field that the data gives as null is deleted from the
\* snapshot.
MergeDropsNulls(old, data) ==
    LET merged == [f \in Fields |->
                      IF Spread(old, data)[f] = Null THEN Absent ELSE Spread(old, data)[f]] IN
    IF IsNullish(merged["wifi_signal"]) /\ old # Undefined
                                         /\ ~IsNullish(old["wifi_signal"])
    THEN [merged EXCEPT !["wifi_signal"] = old["wifi_signal"]]
    ELSE merged

\* The setQueryData updater: the spread, then the last known wifi_signal is
\* kept when the merged one is null or missing.
Merge(old, data) ==
    LET merged == Spread(old, data) IN
    IF IsNullish(merged["wifi_signal"]) /\ old # Undefined
                                         /\ ~IsNullish(old["wifi_signal"])
    THEN [merged EXCEPT !["wifi_signal"] = old["wifi_signal"]]
    ELSE merged

\* -------------------------------------------------------------- coalescer

Range(s) == {s[i] : i \in 1..Len(s)}

\* Mutant of SetAdd: the key is appended even when it is already there.
SetAddDuplicate(s, k) == Append(s, k)

\* Set.prototype.add: a key already in the set keeps its place.
SetAdd(s, k) == IF k \in Range(s) THEN s ELSE Append(s, k)

\* Mutant of DebouncedInvalidate: the set is emptied before the key is
\* added, so that it holds the latest key only.
DebouncedInvalidateLatestOnly(c, queryKey) ==
    [c EXCEPT !.pendingInvalidations = <<queryKey>>,
              !.invalidationTimeoutRef = 1,
              !.flushTimer = InvalidateDelay,
              !.requests = Append(@, [key |-> queryKey, age |-> 0])]

\* Mutant of DebouncedInvalidate: a timeout that is armed is left to run; a
\* new one is armed only when none is.
DebouncedInvalidateKeepsTimer(c, queryKey) ==
    [c EXCEPT !.pendingInvalidations = SetAdd(@, queryKey),
              !.invalidationTimeoutRef = 1,
              !.flushTimer = IF @ = NoTimer THEN InvalidateDelay ELSE @,
              !.requests = Append(@, [key |-> queryKey, age |-> 0])]

\* Mutant of DebouncedInvalidate: the timeout is armed with half the delay.
DebouncedInvalidateHalfDelay(c, queryKey) ==
    [c EXCEPT !.pendingInvalidations = SetAdd(@, queryKey),
              !.invalidationTimeoutRef = 1,
              !.flushTimer = Quantum,
              !.requests = Append(@, [key |-> queryKey, age |-> 0])]

\* Mutant of DebouncedInvalidate: the timeout that is armed is not cleared
\* before the new one is stored in the ref.
DebouncedInvalidateNoClear(c, queryKey) ==
    [c EXCEPT !.pendingInvalidations = SetAdd(@, queryKey),
              !.invalidationTimeoutRef = 1,
              !.flushTimer = InvalidateDelay,
              !.orphanTimeouts = IF c.flushTimer # NoTimer THEN @ + 1 ELSE @,
              !.requests = Append(@, [key |-> queryKey, age |-> 0])]

\* debouncedInvalidate(queryKey) on the coalescer state c: adds the key,
\* clears the timeout that the ref names, when it names one, and arms a new
\* one of InvalidateDelay, which it stores in the ref.  A timeout that is
\* armed while the ref is null would stay armed.
DebouncedInvalidate(c, queryKey) ==
    [c EXCEPT !.pendingInvalidations = SetAdd(@, queryKey),
              !.invalidationTimeoutRef = 1,
              !.flushTimer = InvalidateDelay,
              !.orphanTimeouts = IF c.invalidationTimeoutRef = 0 /\ c.flushTimer # NoTimer
                                 THEN @ + 1
                                 ELSE @,
              !.requests = Append(@, [key |-> queryKey, age |-> 0])]

\* The keys of a log of debouncedInvalidate calls, in call order.
RequestKeys(log) == [i \in 1..Len(log) |-> log[i].key]

\* Mutant of FlushFire: the set is not cleared after it is drained.
FlushFireKeepsSet ==
    /\ flushTimer = 0
    /\ rafQueue' = Append(rafQueue, [keys |-> pendingInvalidations,
                                      requests |-> RequestKeys(requests)])
    /\ pendingInvalidations' = pendingInvalidations
    /\ invalidationTimeoutRef' = 0
    /\ flushTimer' = NoTimer
    /\ requests' = <<>>
    /\ UNCHANGED <<attached, attachCount, connVars, orphanTimeouts, invalidated, cache, sent,
                   frameCount, statusFrames, lastSend, lastLifecycle, lastFrame,
                   lastOpenClose, lastClose, lastRun>>

\* Mutant of FlushFire: the set is drained and cleared, and no animation
\* frame is requested for the keys.
FlushFireNoFrame ==
    /\ flushTimer = 0
    /\ rafQueue' = rafQueue
    /\ pendingInvalidations' = <<>>
    /\ invalidationTimeoutRef' = 0
    /\ flushTimer' = NoTimer
    /\ requests' = <<>>
    /\ UNCHANGED <<attached, attachCount, connVars, orphanTimeouts, invalidated, cache, sent,
                   frameCount, statusFrames, lastSend, lastLifecycle, lastFrame,
                   lastOpenClose, lastClose, lastRun>>

\* Mutant of FlushFire: while an animation frame callback is outstanding, the
\* drained keys are added to its keys and no new callback is requested.
FlushFireJoinsOutstanding ==
    /\ flushTimer = 0
    /\ rafQueue' = IF rafQueue = <<>>
                   THEN <<[keys |-> pendingInvalidations,
                           requests |-> RequestKeys(requests)]>>
                   ELSE [rafQueue EXCEPT ![Len(rafQueue)].keys = @ \o pendingInvalidations]
    /\ pendingInvalidations' = <<>>
    /\ invalidationTimeoutRef' = 0
    /\ flushTimer' = NoTimer
    /\ requests' = <<>>
    /\ UNCHANGED <<attached, attachCount, connVars, orphanTimeouts, invalidated, cache, sent,
                   frameCount, statusFrames, lastSend, lastLifecycle, lastFrame,
                   lastOpenClose, lastClose, lastRun>>

\* The invalidation timeout callback: drains the set into keys, clears the
\* ref and hands the invalidation of keys to requestAnimationFrame.
FlushFire ==
    /\ flushTimer = 0
    /\ rafQueue' = Append(rafQueue, [keys |-> pendingInvalidations,
                                      requests |-> RequestKeys(requests)])
    /\ pendingInvalidations' = <<>>
    /\ invalidationTimeoutRef' = 0
    /\ flushTimer' = NoTimer
    /\ requests' = <<>>
    /\ UNCHANGED <<attached, attachCount, connVars, orphanTimeouts, invalidated, cache, sent,
                   frameCount, statusFrames, lastSend, lastLifecycle, lastFrame,
                   lastOpenClose, lastClose, lastRun>>

Occurrences(s, k) == Cardinality({i \in 1..Len(s) : s[i] = k})

\* The requestAnimationFrame callback: keys.forEach(invalidateQueries).
RunFrame ==
    /\ rafQueue # <<>>
    /\ invalidated' = [k \in QueryKeys |->
                          invalidated[k] + Occurrences(Head(rafQueue).keys, k)]
    /\ rafQueue' = Tail(rafQueue)
    /\ lastRun' = Head(rafQueue)
    /\ UNCHANGED <<attached, attachCount, connVars, pendingInvalidations,
                   invalidationTimeoutRef, flushTimer, orphanTimeouts, cache, sent,
                   frameCount, statusFrames, lastSend, lastLifecycle, lastFrame,
                   lastOpenClose, lastClose, requests>>

\* ----------------------------------------------------------------- router

\* The state handleMessage works on.
RouterState == [cache |-> cache,
                pendingInvalidations |-> pendingInvalidations,
                invalidationTimeoutRef |-> invalidationTimeoutRef,
                flushTimer |-> flushTimer,
                orphanTimeouts |-> orphanTimeouts,
                requests |-> requests]

\* Mutant of HandleMessage: archive_updated requests archiveStats as well.
HandleMessageUpdatedBoth(message, c) ==
    CASE message.type = "printer_status" ->
            IF message.printer_id # 0
            THEN [c EXCEPT !.cache[message.printer_id] = Merge(@, message.data)]
            ELSE c
      [] message.type \in {"print_complete", "archive_created", "archive_updated"} ->
            DebouncedInvalidate(DebouncedInvalidate(c, "archives"), "archiveStats")
      [] OTHER -> c

\* Mutant of HandleMessage: printer_status also requests the invalidation of
\* archives.
HandleMessageStatusInvalidates(message, c) ==
    CASE message.type = "printer_status" ->
            IF message.printer_id # 0
            THEN DebouncedInvalidate(
                     [c EXCEPT !.cache[message.printer_id] = Merge(@, message.data)],
                     "archives")
            ELSE c
      [] message.type \in {"print_complete", "archive_created"} ->
            DebouncedInvalidate(DebouncedInvalidate(c, "archives"), "archiveStats")
      [] message.type = "archive_updated" ->
            DebouncedInvalidate(c, "archives")
      [] OTHER -> c

\* Mutant of HandleMessage: a type without a case requests the invalidation
\* of archives.
HandleMessageDefaultInvalidates(message, c) ==
    CASE message.type = "printer_status" ->
            IF message.printer_id # 0
            THEN [c EXCEPT !.cache[message.printer_id] = Merge(@, message.data)]
            ELSE c
      [] message.type \in {"print_complete", "archive_created"} ->
            DebouncedInvalidate(DebouncedInvalidate(c, "archives"), "archiveStats")
      [] message.type = "archive_updated" ->
            DebouncedInvalidate(c, "archives")
      [] message.type = "pong" -> c
      [] OTHER -> DebouncedInvalidate(c, "archives")

\* Mutant of HandleMessage: a printer_status message without printer_id is
\* merged into the snapshot of printer 7.
HandleMessageDefaultPrinter(message, c) ==
    CASE message.type = "printer_status" ->
            IF message.printer_id # 0
            THEN [c EXCEPT !.cache[message.printer_id] = Merge(@, message.data)]
            ELSE [c EXCEPT !.cache[7] = Merge(@, message.data)]
      [] message.type \in {"print_complete", "archive_created"} ->
            DebouncedInvalidate(DebouncedInvalidate(c, "archives"), "archiveStats")
      [] message.type = "archive_updated" ->
            DebouncedInvalidate(c, "archives")
      [] OTHER -> c

\* handleMessage(message) for a message that is an object.
HandleMessage(message, c) ==
    CASE message.type = "printer_status" ->
            IF message.printer_id # 0
            THEN [c EXCEPT !.cache[message.printer_id] = Merge(@, message.data)]
            ELSE c
      [] message.type \in {"print_complete", "archive_created"} ->
            DebouncedInvalidate(DebouncedInvalidate(c, "archives"), "archiveStats")
      [] message.type = "archive_updated" ->
            DebouncedInvalidate(c, "archives")
      [] OTHER -> c

\* Mutant of OnMessageResult: a frame that is not an object makes the hook
\* refetch the archives.
OnMessageResultRefetch(frame, c) ==
    CASE frame.kind \in {"malformed", "null", "scalar"} -> DebouncedInvalidate(c, "archives")
      [] OTHER -> HandleMessage(frame, c)

\* The body of ws.onmessage: JSON.parse throws on malformed text, reading
\* message.type throws on null, and a scalar has no type; the catch swallows
\* both throws, which happen before any effect.
OnMessageResult(frame, c) ==
    CASE frame.kind = "malformed" -> c
      [] frame.kind = "null" -> c
      [] frame.kind = "scalar" -> c
      [] OTHER -> HandleMessage(frame, c)

\* Mutant of OnMessage: a pong frame is answered with a ping on the socket it
\* came on.
OnMessageAnswersPong(h, frame) ==
    /\ h \in HandleIds
    /\ handles[h].readyState = "OPEN"
    /\ frameCount < MaxFrames
    /\ frameCount' = frameCount + 1
    /\ lastFrame' = frame
    /\ statusFrames' = IF frame.type = "printer_status" /\ frame.printer_id # 0
                       THEN Append(statusFrames, [h |-> h,
                                                  printer_id |-> frame.printer_id,
                                                  data |-> frame.data])
                       ELSE statusFrames
    /\ LET r == OnMessageResult(frame, RouterState) IN
        /\ cache' = r.cache
        /\ pendingInvalidations' = r.pendingInvalidations
        /\ invalidationTimeoutRef' = r.invalidationTimeoutRef
        /\ flushTimer' = r.flushTimer
        /\ orphanTimeouts' = r.orphanTimeouts
        /\ requests' = r.requests
    /\ sent' = IF frame.type = "pong" THEN Transmit(sent, h, "ping") ELSE sent
    /\ UNCHANGED <<attached, attachCount, connVars, rafQueue, invalidated,
                   lastSend, lastLifecycle, lastOpenClose, lastClose, lastRun>>

\* ws.onmessage: the browser delivers a message only on an OPEN socket.
OnMessage(h, frame) ==
    /\ h \in HandleIds
    /\ handles[h].readyState = "OPEN"
    /\ frameCount < MaxFrames
    /\ frameCount' = frameCount + 1
    /\ lastFrame' = frame
    /\ statusFrames' = IF frame.type = "printer_status" /\ frame.printer_id # 0
                       THEN Append(statusFrames, [h |-> h,
                                                  printer_id |-> frame.printer_id,
                                                  data |-> frame.data])
                       ELSE statusFrames
    /\ LET r == OnMessageResult(frame, RouterState) IN
        /\ cache' = r.cache
        /\ pendingInvalidations' = r.pendingInvalidations
        /\ invalidationTimeoutRef' = r.invalidationTimeoutRef
        /\ flushTimer' = r.flushTimer
        /\ orphanTimeouts' = r.orphanTimeouts
        /\ requests' = r.requests
    /\ UNCHANGED <<attached, attachCount, connVars, rafQueue, invalidated, sent,
                   lastSend, lastLifecycle, lastOpenClose, lastClose, lastRun>>

\* ws.onmessage for a frame of a stream without end: the handler runs as in
\* OnMessage; the frame is not entered in the logs of frames and of requests,
\* which are kept for bounded runs.  The stream pauses while the invalidations
\* it has caused, done and outstanding, are MaxInvalidated.
OnStreamMessage(h, frame) ==
    /\ h \in HandleIds
    /\ handles[h].readyState = "OPEN"
    /\ \A k \in QueryKeys : invalidated[k] + Len(rafQueue) < MaxInvalidated
    /\ LET r == OnMessageResult(frame, RouterState) IN
        /\ cache' = r.cache
        /\ pendingInvalidations' = r.pendingInvalidations
        /\ invalidationTimeoutRef' = r.invalidationTimeoutRef
        /\ flushTimer' = r.flushTimer
        /\ orphanTimeouts' = r.orphanTimeouts
    /\ UNCHANGED <<attached, attachCount, connVars, rafQueue, invalidated, sent, histVars>>

\* ------------------------------------------------------------------- time

\* The remaining delays of the armed timers.
ArmedDelays ==
    {reconnectTimer[h] : h \in {g \in 1..MaxHandles : reconnectTimer[g] # NoTimer}}
    \cup {handles[h].pingInterval : h \in {g \in HandleIds : handles[g].pingInterval # NoTimer}}
    \cup (IF flushTimer # NoTimer THEN {flushTimer} ELSE {})

MinDelay == CHOOSE d \in ArmedDelays : \A e \in ArmedDelays : d <= e

Min(a, b) == IF a <= b THEN a ELSE b

Elapse(t, d) == IF t = NoTimer THEN NoTimer ELSE t - d

\* d milliseconds pass: no armed timer is due before them.  Time passes to
\* the next due timer, or by Quantum while the invalidation timeout is armed.
Advance(d) ==
    /\ ArmedDelays # {}
    /\ d > 0
    /\ d <= MinDelay
    /\ d = MinDelay \/ (d = Quantum /\ flushTimer # NoTimer)
    /\ reconnectTimer' = [h \in 1..MaxHandles |-> Elapse(reconnectTimer[h], d)]
    /\ handles' = [h \in HandleIds |->
                     [handles[h] EXCEPT !.pingInterval = Elapse(@, d)]]
    /\ flushTimer' = Elapse(flushTimer, d)
    /\ requests' = [i \in 1..Len(requests) |->
                      [requests[i] EXCEPT !.age = Min(@ + d, InvalidateDelay)]]
    /\ UNCHANGED <<attached, attachCount, wsRef, reconnectTimeoutRef, isConnected>>
    /\ UNCHANGED <<pendingInvalidations, invalidationTimeoutRef, orphanTimeouts, rafQueue,
                   invalidated>>
    /\ UNCHANGED <<cache, sent, frameCount, statusFrames, lastSend, lastLifecycle, lastFrame,
                   lastOpenClose, lastClose, lastRun>>

\* ------------------------------------------------------------ specifications

\* The connection manager: the effect and its cleanup, the transport's
\* lifecycle events, the reconnect and keepalive timers, and sendMessage.
Next ==
    \/ Attach
    \/ Detach
    \/ \E h \in 1..MaxHandles : OnOpen(h)
    \/ \E h \in 1..MaxHandles : OnClose(h)
    \/ \E h \in 1..MaxHandles : OnError(h)
    \/ \E h \in 1..MaxHandles : ReconnectFire(h)
    \/ \E h \in 1..MaxHandles : PingFire(h)
    \/ SendMessage
    \/ \E d \in ArmedDelays : Advance(d)

Spec == Init /\ [][Next]_vars

\* The connection manager without sendMessage, where the browser delivers
\* the close event of a socket that is closing or has failed, fires every due
\* timer and lets time pass.
CloseDelivery(h) == handles[h].readyState \in {"CLOSING", "CLOSED"} /\ OnClose(h)

FairNext ==
    \/ Attach
    \/ Detach
    \/ \E h \in 1..MaxHandles : OnOpen(h)
    \/ \E h \in 1..MaxHandles : OnClose(h)
    \/ \E h \in 1..MaxHandles : OnError(h)
    \/ \E h \in 1..MaxHandles : ReconnectFire(h)
    \/ \E h \in 1..MaxHandles : PingFire(h)
    \/ \E d \in ArmedDelays : Advance(d)

FairSpec ==
    /\ Init
    /\ [][FairNext]_vars
    /\ WF_vars(\E h \in 1..MaxHandles : h \in HandleIds /\ CloseDelivery(h))
    /\ WF_vars(\E h \in 1..MaxHandles : ReconnectFire(h))
    /\ WF_vars(\E h \in 1..MaxHandles : PingFire(h))
    /\ WF_vars(\E d \in ArmedDelays : Advance(d))

\* The connection manager of a scope that stays attached, on a transport
\* whose connections end by an error: the browser fires error on the failed
\* socket and then delivers its close event.  The consumer sends messages at
\* any time.
ErrorNext ==
    \/ Attach
    \/ \E h \in 1..MaxHandles : OnOpen(h)
    \/ \E h \in 1..MaxHandles : OnError(h)
    \/ \E h \in 1..MaxHandles : h \in HandleIds /\ CloseDelivery(h)
    \/ \E h \in 1..MaxHandles : ReconnectFire(h)
    \/ \E h \in 1..MaxHandles : PingFire(h)
    \/ SendMessage
    \/ \E d \in ArmedDelays : Advance(d)

ErrorSpec == Init /\ [][ErrorNext]_vars

\* The message router and the merger: one connection is established and
\* the transport delivers inbound frames of every kind on it.
RouterNext ==
    \/ Attach
    \/ \E h \in 1..MaxHandles : OnOpen(h)
    \/ \E h \in 1..MaxHandles, frame \in Frames : OnMessage(h, frame)

RouterSpec == Init /\ [][RouterNext]_vars

\* The printer_status frames that reach setQueryData and whose data names
\* one field.
MergerFrames ==
    {f \in Frames : /\ f.type = "printer_status"
                    /\ f.printer_id # 0
                    /\ f.data # Undefined
                    /\ Cardinality({g \in Fields : f.data[g] # Absent}) = 1}

\* The merger among the connection events of the hook: the effect and its
\* cleanup run, sockets open, and printer_status frames arrive on the open
\* sockets.
MergerNext ==
    \/ Attach
    \/ Detach
    \/ \E h \in 1..MaxHandles : OnOpen(h)
    \/ \E h \in 1..MaxHandles, frame \in MergerFrames : OnMessage(h, frame)

MergerSpec == Init /\ [][MergerNext]_vars

\* The frames that request invalidations, and the keepalive reply.
CoalescerFrames == {f \in Frames : f.type \in {"print_complete", "archive_created",
                                                "archive_updated", "pong"}}

\* The invalidation coalescer: connections are established and torn down by
\* the effect and its cleanup, the transport delivers the frames that request
\* invalidations, time passes, the invalidation timeout fires and the
\* animation frame callbacks run.
CoalescerNext ==
    \/ Attach
    \/ Detach
    \/ \E h \in 1..MaxHandles : OnOpen(h)
    \/ \E h \in 1..MaxHandles, frame \in CoalescerFrames : OnMessage(h, frame)
    \/ FlushFire
    \/ RunFrame
    \/ \E d \in ArmedDelays \cup {Quantum} : Advance(d)

CoalescerSpec == Init /\ [][CoalescerNext]_vars

\* The invalidation coalescer of a scope that stays attached, under a stream
\* of frames without end: a due invalidation timeout fires, a requested
\* animation frame callback runs, a due ping interval fires, and time passes.
StreamNext ==
    \/ Attach
    \/ \E h \in 1..MaxHandles : OnOpen(h)
    \/ \E h \in 1..MaxHandles, frame \in CoalescerFrames : OnStreamMessage(h, frame)
    \/ FlushFire
    \/ RunFrame
    \/ \E h \in 1..MaxHandles : PingFire(h)
    \/ \E d \in ArmedDelays \cup {Quantum} : Advance(d)

StreamSpec ==
    /\ Init
    /\ [][StreamNext]_vars
    /\ WF_vars(FlushFire)
    /\ WF_vars(RunFrame)
    /\ WF_vars(\E h \in 1..MaxHandles : PingFire(h))
    /\ WF_vars(\E d \in ArmedDelays \cup {Quantum} : Advance(d))

\* ================================================================== claims

\* The sockets that are CONNECTING or OPEN.
LiveHandles == {h \in HandleIds : handles[h].readyState \in {"CONNECTING", "OPEN"}}

\* The reconnect timers that are armed.
ArmedReconnects == {h \in 1..MaxHandles : reconnectTimer[h] # NoTimer}

\* C1: in every reachable state at most one socket is CONNECTING or OPEN.
C1_AtMostOneLiveHandle == Cardinality(LiveHandles) <= 1

\* C2 (as claimed): the connected flag is true exactly when the most recent of
\* the open, close and error events was an open.
C2_ConnectedIffLastEventOpen == isConnected <=> (lastLifecycle = "open")

\* C2 (amended): the connected flag is true exactly when the most recent of
\* the open and close events was an open; an error event leaves the flag as
\* it is, and the close event that follows it sets the flag to false.
C2_ConnectedIffLastOpenCloseOpen == isConnected <=> (lastOpenClose = "open")

\* C2 witness: an error event was the latest event on an open connection.
C2_Witness == lastLifecycle = "error" /\ lastOpenClose = "open" /\ isConnected

\* C3: once the cleanup has run and while the effect has not run again, no
\* socket is constructed, no reconnect timer is armed or fires, and the
\* connected flag does not change.
C3_NoMutationAfterDetach ==
    [][(attachCount > 0 /\ ~attached /\ ~attached') =>
         /\ Len(handles') = Len(handles)
         /\ ArmedReconnects' = ArmedReconnects
         /\ isConnected' = isConnected]_vars

\* C4: a sendMessage call made while the referenced socket is not OPEN
\* changes nothing, and a user frame is handed to a socket only by a
\* sendMessage call made while the referenced socket is OPEN, in that very
\* step and on that socket: nothing is queued for later.
C4_SendWhileNotOpenIsLost ==
    [][/\ (SendMessage /\ ~RefIsOpen(handles, wsRef)) =>
             /\ lastSend' = "dropped"
             /\ UNCHANGED <<sent, connVars, coalescerVars, cache>>
       /\ (sent' # sent /\ sent'[Len(sent')].type = "user") =>
             /\ RefIsOpen(handles, wsRef)
             /\ lastSend' = "transmitted"
             /\ sent' = Append(sent, [h |-> wsRef, type |-> "user"])]_vars

\* C4 witness: the latest sendMessage call was dropped, the connection is open
\* now, and nothing has been transmitted.
C4_Witness == lastSend = "dropped" /\ RefIsOpen(handles, wsRef) /\ sent = <<>>

\* C5: while attached, a reconnect timer is armed exactly when the socket
\* constructed latest has had its close event and no socket was constructed
\* since; none is armed while a socket is CONNECTING or OPEN or before the
\* first connect.
C5_ReconnectPendingIffClosed ==
    /\ (ArmedReconnects # {}) => (LiveHandles = {} /\ handles # <<>>)
    /\ attached => ((ArmedReconnects # {}) <=>
                        (handles # <<>> /\ handles[Len(handles)].closeFired))

\* C6: while the scope stays attached, whenever the socket constructed latest
\* is closing or closed, a new socket is eventually constructed, whatever the
\* number n of sockets constructed before (below the bound of the model).
C6_ReconnectEventually ==
    \A n \in 1..(MaxHandles - 1) :
        [](( /\ attached
             /\ Len(handles) = n
             /\ handles[n].readyState \in {"CLOSING", "CLOSED"})
           => <>(Len(handles) > n \/ ~attached))

\* C6 witness: the second socket has closed, and a third one was constructed
\* while the scope was attached throughout.
C6_Witness ==
    /\ attached
    /\ attachCount = 1
    /\ Len(handles) = 3
    /\ handles[1].closeFired
    /\ handles[2].closeFired
    /\ handles[3].readyState = "CONNECTING"

\* The merge as the claim states it, field by field: the payload's value when
\* the payload names the field, else the snapshot's; and the snapshot's
\* wifi_signal when that is non-null and the payload's is null or missing.
ClaimedMerge(S, P) ==
    LET S0 == IF S = Undefined THEN EmptyObject ELSE S
        P0 == IF P = Undefined THEN EmptyObject ELSE P
    IN [f \in Fields |->
          IF f = "wifi_signal" /\ S0[f] \notin {Null, Absent} /\ P0[f] \in {Null, Absent}
          THEN S0[f]
          ELSE IF P0[f] # Absent THEN P0[f] ELSE S0[f]]

\* C7: a printer_status frame for printer i leaves at printerStatus:i the
\* merge of its data into the old snapshot as the claim states it; merging
\* {wifi_signal: null} into {wifi_signal: -42, state: IDLE} gives
\* {wifi_signal: -42, state: IDLE}, and merging {wifi_signal: -50} gives
\* {wifi_signal: -50, state: IDLE}.
C7_MergeAsClaimed ==
    [][\A h \in 1..MaxHandles, frame \in Frames :
         (frame.type = "printer_status" /\ frame.printer_id # 0 /\ OnMessage(h, frame)) =>
            LET old == cache[frame.printer_id]
                new == cache'[frame.printer_id]
            IN /\ new = ClaimedMerge(old, frame.data)
               /\ (old = [wifi_signal |-> "-42", state |-> "IDLE"]
                     /\ frame.data = [wifi_signal |-> Null, state |-> Absent])
                  => new = [wifi_signal |-> "-42", state |-> "IDLE"]
               /\ (old = [wifi_signal |-> "-42", state |-> "IDLE"]
                     /\ frame.data = [wifi_signal |-> "-50", state |-> Absent])
                  => new = [wifi_signal |-> "-50", state |-> "IDLE"]]_vars

\* C7 witness: {wifi_signal: null} was merged into a snapshot holding
\* wifi_signal -42 and state IDLE, which are both still there.
C7_Witness ==
    /\ lastFrame.type = "printer_status"
    /\ lastFrame.printer_id = 7
    /\ lastFrame.data = [wifi_signal |-> Null, state |-> Absent]
    /\ frameCount = 2
    /\ cache[7] = [wifi_signal |-> "-42", state |-> "IDLE"]

\* C8: the invalidation timeout fires only when every request made since the
\* latest flush is at least InvalidateDelay old, so the requests for a key
\* that fall within one window are drained together; and the animation frame
\* callback of a flush invalidates a key exactly once when the flush drained
\* one or more requests for it, and not at all when it drained none.  Until
\* the cleanup runs, the timeout is armed whenever a request is undrained.
C8_OneInvalidationPerKeyAndWindow ==
    /\ []((attached /\ attachCount = 1 /\ requests # <<>>) => flushTimer # NoTimer)
    /\ [][/\ FlushFire => \A i \in 1..Len(requests) : requests[i].age = InvalidateDelay
       /\ RunFrame => \A k \in QueryKeys :
             invalidated'[k] - invalidated[k]
                = IF Occurrences(Head(rafQueue).requests, k) >= 1 THEN 1 ELSE 0]_vars

\* C8 witness: two requests for archives were drained by one flush, and
\* archives has been invalidated once.
C8_Witness ==
    /\ Occurrences(lastRun.requests, "archives") = 2
    /\ invalidated["archives"] = 1
    /\ rafQueue = <<>>
    /\ pendingInvalidations = <<>>

\* C9: a flush happens when the window has elapsed and drains exactly the keys
\* requested since the latest flush; its animation frame callback makes as
\* many invalidations as there are distinct requested keys, one for each
\* requested key and none for any other key.
C9_EachRequestedKeyOnce ==
    [][/\ FlushFire =>
             /\ flushTimer = 0
             /\ Range(pendingInvalidations) = Range(RequestKeys(requests))
             /\ rafQueue'[Len(rafQueue')].keys = pendingInvalidations
       /\ RunFrame =>
             LET batch == Head(rafQueue)
                 requested == Range(batch.requests)
             IN /\ Len(batch.keys) = Cardinality(requested)
                /\ Range(batch.keys) = requested
                /\ \A k \in QueryKeys :
                      invalidated'[k] = invalidated[k] + (IF k \in requested THEN 1 ELSE 0)]_vars

\* C9 witness: archives and archiveStats were requested in one window and
\* each has been invalidated once.
C9_Witness ==
    /\ lastRun.keys = <<"archives", "archiveStats">>
    /\ invalidated = [k \in QueryKeys |-> 1]

\* The frames that do not decode to an object.
NonObjectFrames == {f \in Frames : f.kind \in {"malformed", "null", "scalar"}}

\* C10: handling a frame that does not decode to an object completes and
\* leaves the cache, the pending set, the invalidation timeout, the queued
\* invalidations and the connection as they were.
C10_UndecodableFrameIgnored ==
    [][\A h \in 1..MaxHandles, frame \in NonObjectFrames :
         OnMessage(h, frame) =>
            UNCHANGED <<cache, coalescerVars, connVars, sent, attached>>]_vars

\* C10 witness: a frame that decodes to null was delivered when a snapshot
\* was cached.
C10_Witness == lastFrame.kind = "null" /\ cache[7] # Undefined

\* The keys a frame of an invalidation type asks for, in call order.
ClaimedKeys(type) ==
    IF type = "archive_updated" THEN <<"archives">> ELSE <<"archives", "archiveStats">>

\* C11: a print_complete frame and an archive_created frame each request the
\* invalidation of archives and archiveStats and of nothing else, an
\* archive_updated frame requests the invalidation of archives and of nothing
\* else, and none of the three changes a printerStatus snapshot.
C11_InvalidationDispatch ==
    [][\A h \in 1..MaxHandles, frame \in Frames :
         (/\ frame.type \in {"print_complete", "archive_created", "archive_updated"}
          /\ OnMessage(h, frame)) =>
            /\ RequestKeys(requests') = RequestKeys(requests) \o ClaimedKeys(frame.type)
            /\ Range(pendingInvalidations')
                  = Range(pendingInvalidations) \cup Range(ClaimedKeys(frame.type))
            /\ cache' = cache]_vars

\* C11 witness: an archive_updated frame was delivered when a snapshot was
\* cached; archives is the only key requested and the snapshot is still there.
C11_Witness ==
    /\ lastFrame.type = "archive_updated"
    /\ RequestKeys(requests) = <<"archives">>
    /\ pendingInvalidations = <<"archives">>
    /\ cache[7] # Undefined

\* C12: a printer_status frame with printer_id i changes no snapshot but the
\* one of printer i, adds no key to the pending set, requests no invalidation
\* and arms no invalidation timeout.
C12_StatusWritesOnlyItsKey ==
    [][\A h \in 1..MaxHandles, frame \in Frames :
         (frame.type = "printer_status" /\ frame.printer_id # 0 /\ OnMessage(h, frame)) =>
            /\ \A p \in PrinterIds \ {frame.printer_id} : cache'[p] = cache[p]
            /\ pendingInvalidations' = pendingInvalidations
            /\ requests' = requests
            /\ UNCHANGED <<invalidationTimeoutRef, flushTimer, rafQueue, invalidated>>]_vars

\* C12 witness: a printer_status frame for printer 7 was delivered when
\* printer 8 had a snapshot; printer 8's snapshot is still there, printer 7 has
\* one, and nothing is pending.
C12_Witness ==
    /\ lastFrame.type = "printer_status"
    /\ lastFrame.printer_id = 7
    /\ cache[7] # Undefined
    /\ cache[8] = [wifi_signal |-> "-50", state |-> "RUNNING"]
    /\ pendingInvalidations = <<>>

\* C13: a pong frame and a frame of a type that has no case change no
\* snapshot, request no invalidation, arm no timer and leave the connection
\* as it is; the handler completes.
C13_PongAndUnknownChangeNothing ==
    [][\A h \in 1..MaxHandles, frame \in Frames :
         (frame.kind = "object" /\ frame.type \in {"pong", "unknown"}
                                /\ OnMessage(h, frame)) =>
            /\ UNCHANGED <<cache, coalescerVars, requests, connVars, sent, attached>>
            /\ frameCount' = frameCount + 1]_vars

\* C13 witness: a frame of an unknown type was delivered when a snapshot was
\* cached.
C13_Witness ==
    /\ lastFrame.type = "unknown"
    /\ frameCount = 2
    /\ cache[8] # Undefined

\* C14: in every reachable state the ping interval of a socket is armed
\* exactly when that socket is OPEN.
C14_KeepaliveIffOpen ==
    \A h \in HandleIds :
        (handles[h].pingInterval # NoTimer) <=> (handles[h].readyState = "OPEN")

\* C15: a connect() call, by the effect or by a reconnect timeout, made while
\* a socket is CONNECTING or OPEN constructs no socket and leaves the
\* reference as it is.
C15_ConnectIdempotent ==
    [][((Attach \/ \E h \in 1..MaxHandles : ReconnectFire(h)) /\ LiveHandles # {})
          => (handles' = handles /\ wsRef' = wsRef)]_vars

\* C16: in every reachable state the connected flag is true exactly when the
\* referenced socket exists and is OPEN (a sendMessage call transmits), and it
\* is true whenever a socket is OPEN.
C16_ConnectedIffRefOpen ==
    /\ isConnected <=> RefIsOpen(handles, wsRef)
    /\ (\E h \in HandleIds : handles[h].readyState = "OPEN") => isConnected

\* C17: the cleanup runs in every state in which the scope is attached, and
\* after it every socket that was CONNECTING or OPEN is closing and no
\* reconnect timer is armed.
C17_DetachClosesAndCancels ==
    /\ [](attached => ENABLED Detach)
    /\ [][Detach => /\ \A h \in LiveHandles : handles'[h].readyState = "CLOSING"
                    /\ ArmedReconnects' = {}]_vars

\* C18: the error handler forces the socket closed and does nothing else of
\* the transition; the close event that follows does the transition (ping
\* interval stopped, reference dropped, connected false, one reconnect timer
\* armed, and it is the only one armed); and after its close event a socket
\* gets no second one and arms no second reconnect.
C18_ErrorThenCloseOnce ==
    [][\A h \in 1..MaxHandles :
         /\ OnError(h) =>
               /\ handles'[h].readyState \in {"CLOSING", "CLOSED"}
               /\ handles'[h].pingInterval = handles[h].pingInterval
               /\ UNCHANGED <<wsRef, isConnected, reconnectTimer, reconnectTimeoutRef>>
         /\ (h \in HandleIds /\ CloseDelivery(h)) =>
               /\ handles'[h].pingInterval = NoTimer
               /\ wsRef' = 0
               /\ ~isConnected'
               /\ h \notin ArmedReconnects
               /\ reconnectTimer'[h] = ReconnectDelay
               /\ ArmedReconnects' = {h}
         /\ (h \in HandleIds /\ handles[h].closeFired) =>
               /\ ~OnClose(h)
               /\ reconnectTimer'[h] <= reconnectTimer[h]]_vars

\* C18 witness: the first socket was open long enough to ping, then failed
\* and had its close event: its ping interval is stopped, the reference is
\* dropped, connected is false and its reconnect timer is the one armed.
C18_Witness ==
    /\ Len(handles) = 1
    /\ handles[1].closeFired
    /\ handles[1].pingInterval = NoTimer
    /\ sent = <<[h |-> 1, type |-> "ping"]>>
    /\ wsRef = 0
    /\ ~isConnected
    /\ ArmedReconnects = {1}

\* The data of the printer_status frames delivered for printer i, in delivery
\* order.
StatusData(i) ==
    LET ks == {k \in 1..Len(statusFrames) : statusFrames[k].printer_id = i}
        nth[n \in 0..Len(statusFrames)] ==
            IF n = 0 THEN <<>>
            ELSE IF n \in ks THEN Append(nth[n - 1], statusFrames[n].data) ELSE nth[n - 1]
    IN nth[Len(statusFrames)]

\* merge(...merge(merge(S, f1), f2)..., fn)
RECURSIVE MergeLeftToRight(_, _)
MergeLeftToRight(S, fs) ==
    IF fs = <<>> THEN S ELSE MergeLeftToRight(Merge(S, Head(fs)), Tail(fs))

\* The frames of fs that name field f.
Naming(fs, f) == {k \in 1..Len(fs) : fs[k] # Undefined /\ fs[k][f] # Absent}

\* C19: the snapshot of printer i is the merge, left to right and starting
\* from no snapshot, of the printer_status frames delivered for i in their
\* delivery order; and the field state, which is not sticky, has the value of
\* the latest frame that names it.
C19_MergesInDeliveryOrder ==
    \A i \in PrinterIds :
        LET fs == StatusData(i) IN
        /\ cache[i] = MergeLeftToRight(Undefined, fs)
        /\ Naming(fs, "state") # {} =>
              LET last == CHOOSE k \in Naming(fs, "state") :
                              \A j \in Naming(fs, "state") : j <= k
              IN cache[i]["state"] = fs[last]["state"]

\* C19 witness: two frames for printer 7 were delivered, state IDLE with
\* wifi_signal -42 and then state RUNNING: the snapshot holds RUNNING and -42.
C19_Witness ==
    /\ StatusData(7) = <<[wifi_signal |-> "-42", state |-> "IDLE"],
                         [wifi_signal |-> Absent, state |-> "RUNNING"]>>
    /\ cache[7] = [wifi_signal |-> "-42", state |-> "RUNNING"]

\* C20: a merge is one step that reads the snapshot of the state it starts
\* in and writes the merged snapshot, and nothing else writes a snapshot;
\* so whatever events come between the merges on a key, every field named by
\* any of them is in the snapshot of that key afterwards.
C20_NoLostUpdate ==
    /\ [][cache' # cache =>
            \E h \in 1..MaxHandles, frame \in MergerFrames :
                /\ OnMessage(h, frame)
                /\ cache' = [cache EXCEPT ![frame.printer_id] = Merge(@, frame.data)]]_vars
    /\ [](\A i \in PrinterIds, f \in Fields :
            Naming(StatusData(i), f) # {} => ~(cache[i][f] \in {Absent, "undefined"}))

\* C20 witness: a frame naming only state came for printer 7 on the first
\* socket, the cleanup and the effect ran, and a frame naming only
\* wifi_signal came for printer 7 on the second socket: both fields are in the
\* snapshot.
C20_Witness ==
    /\ Len(statusFrames) = 2
    /\ statusFrames[1] = [h |-> 1, printer_id |-> 7,
                          data |-> [wifi_signal |-> Absent, state |-> "RUNNING"]]
    /\ statusFrames[2] = [h |-> 2, printer_id |-> 7,
                          data |-> [wifi_signal |-> "-50", state |-> Absent]]
    /\ cache[7] = [wifi_signal |-> "-50", state |-> "RUNNING"]

\* C21: the pending set holds exactly the keys requested since the latest
\* flush; a flush hands exactly these keys to its animation frame callback
\* and leaves the set empty; and the callback invalidates exactly the keys
\* requested between the flush before and its own flush.
C21_FlushDrainsAllRequested ==
    /\ [](Range(pendingInvalidations) = Range(RequestKeys(requests)))
    /\ [][/\ FlushFire =>
                /\ Range(rafQueue'[Len(rafQueue')].keys) = Range(RequestKeys(requests))
                /\ pendingInvalidations' = <<>>
          /\ RunFrame =>
                ({k \in QueryKeys : invalidated'[k] # invalidated[k]}
                    = Range(Head(rafQueue).requests))]_vars

\* C21 witness: archives was requested, then archives and archiveStats; the
\* flush has just drained both keys and the set is empty.
C21_Witness ==
    /\ pendingInvalidations = <<>>
    /\ requests = <<>>
    /\ rafQueue = <<[keys |-> <<"archives", "archiveStats">>,
                     requests |-> <<"archives", "archives", "archiveStats">>]>>

\* The frames that request invalidations.
InvalidationFrames == {f \in Frames : f.type \in {"print_complete", "archive_created",
                                                   "archive_updated"}}

\* C22 (as claimed): the window runs from the first request of a batch: a
\* request made when no timeout is armed arms one of InvalidateDelay, and a
\* request made while the timeout is armed leaves its remaining delay as it
\* is.
C22_WindowFromFirstRequest ==
    [][\A h \in 1..MaxHandles, frame \in InvalidationFrames :
         OnMessage(h, frame) =>
            flushTimer' = (IF flushTimer = NoTimer THEN InvalidateDelay ELSE flushTimer)]_vars

\* C22 (amended): the window runs from the latest request: every request
\* arms the timeout anew with the full InvalidateDelay, whatever was left of
\* it; while the timeout is armed, its remaining delay and the time since the
\* latest request add up to InvalidateDelay; and it fires when the latest
\* request is InvalidateDelay old.
C22_WindowFromLatestRequest ==
    /\ [](flushTimer # NoTimer =>
            /\ requests # <<>>
            /\ requests[Len(requests)].age + flushTimer = InvalidateDelay)
    /\ [][/\ \A h \in 1..MaxHandles, frame \in InvalidationFrames :
                OnMessage(h, frame) => flushTimer' = InvalidateDelay
          /\ FlushFire => requests[Len(requests)].age = InvalidateDelay]_vars

\* C22 witness: archives was requested, and again Quantum later: the timeout
\* has its full delay again.
C22_Witness ==
    /\ requests = <<[key |-> "archives", age |-> Quantum], [key |-> "archives", age |-> 0]>>
    /\ flushTimer = InvalidateDelay

\* The requests of two frames that each ask for archives and archiveStats.
TwoFramesKeys == <<"archives", "archiveStats", "archives", "archiveStats">>

\* C23: when an archive_created frame arrives Quantum (50 ms) after another
\* whose requests are not flushed yet, the timeout is armed anew with
\* InvalidateDelay; the flush of the two frames comes when the requests of
\* the second frame are InvalidateDelay old and hands archives and
\* archiveStats once each to its animation frame callback, which invalidates
\* each of them exactly once.
C23_TwoFramesOneInvalidationEach ==
    [][/\ \A h \in 1..MaxHandles, frame \in Frames :
            (/\ frame.type = "archive_created"
             /\ requests = <<[key |-> "archives", age |-> Quantum],
                             [key |-> "archiveStats", age |-> Quantum]>>
             /\ OnMessage(h, frame)) =>
                /\ flushTimer' = InvalidateDelay
                /\ pendingInvalidations' = <<"archives", "archiveStats">>
                /\ RequestKeys(requests') = TwoFramesKeys
       /\ (FlushFire /\ RequestKeys(requests) = TwoFramesKeys) =>
                /\ requests[3].age = InvalidateDelay
                /\ requests[4].age = InvalidateDelay
                /\ rafQueue'[Len(rafQueue')].keys = <<"archives", "archiveStats">>
       /\ (RunFrame /\ Head(rafQueue).requests = TwoFramesKeys) =>
                invalidated' = [k \in QueryKeys |-> invalidated[k] + 1]]_vars

\* C23 witness: the second archive_created frame has arrived Quantum after
\* the first, and InvalidateDelay after it both keys have been invalidated
\* once; nothing is pending.
C23_Witness ==
    /\ lastFrame.type = "archive_created"
    /\ lastRun.requests = TwoFramesKeys
    /\ lastRun.keys = <<"archives", "archiveStats">>
    /\ invalidated = [k \in QueryKeys |-> 1]
    /\ pendingInvalidations = <<>>
    /\ flushTimer = NoTimer
    /\ rafQueue = <<>>

\* C24: the ping interval of a socket fires once per PingInterval and is
\* armed again; its callback sends one ping when the socket is OPEN and
\* nothing when it is not; and no ping is sent while the scope is detached.
C24_PingWhileOpenAndAttached ==
    [][\A h \in 1..MaxHandles :
         PingFire(h) =>
            /\ handles[h].pingInterval = 0
            /\ handles'[h].pingInterval = PingInterval
            /\ IF handles[h].readyState = "OPEN"
               THEN sent' = Transmit(sent, h, "ping") /\ attached
               ELSE sent' = sent]_vars

\* C25: while the scope is detached after an attach, no step invokes a
\* downstream invalidation: neither the invalidation timeout, which the
\* cleanup has cleared, nor an animation frame callback that a flush handed
\* over before the cleanup ran.
C25_NoInvalidationAfterDetach ==
    [][(attachCount > 0 /\ ~attached) =>
          /\ invalidated' = invalidated
          /\ ~FlushFire]_vars

\* C26: a connection attempt has no timeout.  While a socket is CONNECTING, a
\* step driven by a timer or by the passing of time (the reconnect timer, a
\* ping interval, time itself) leaves that socket CONNECTING, leaves the
\* published flag as it is and constructs no socket.
C26_NoTimeoutWhileConnecting ==
    [][\A h \in 1..MaxHandles :
         (/\ h \in HandleIds
          /\ handles[h].readyState = "CONNECTING"
          /\ \/ \E g \in 1..MaxHandles : ReconnectFire(g)
             \/ \E g \in 1..MaxHandles : PingFire(g)
             \/ \E d \in ArmedDelays : Advance(d))
         => /\ handles'[h].readyState = "CONNECTING"
            /\ isConnected' = isConnected
            /\ Len(handles') = Len(handles)]_vars

\* The invalidation timeouts that are armed: the one counted down by
\* flushTimer and those left armed behind the ref.
ArmedFlushTimers == (IF flushTimer # NoTimer THEN 1 ELSE 0) + orphanTimeouts

\* C27: at most one invalidation timeout is armed at any time: a call of
\* debouncedInvalidate made while one is armed leaves exactly one armed, none
\* behind the ref; and every firing of the timeout drains a batch of requests
\* made since the firing before it, so that no batch is flushed twice.
C27_AtMostOneFlushTimer ==
    /\ [](ArmedFlushTimers <= 1)
    /\ [][/\ \A h \in 1..MaxHandles, frame \in InvalidationFrames :
                (OnMessage(h, frame) /\ flushTimer # NoTimer) =>
                    /\ flushTimer' = InvalidateDelay
                    /\ orphanTimeouts' = 0
          /\ FlushFire => (requests # <<>> /\ requests' = <<>> /\ ArmedFlushTimers' = 0)]_vars

\* A request has been made while the timeout armed by an earlier frame was
\* running, and one timeout is armed.
C27_Witness ==
    /\ lastFrame.type = "print_complete"
    /\ Len(requests) = 3
    /\ requests[1].age = Quantum
    /\ requests[3].age = 0
    /\ flushTimer = InvalidateDelay
    /\ ArmedFlushTimers = 1

\* The names of the fields of a snapshot.
FieldNames(S) == IF S = Undefined THEN {} ELSE {f \in Fields : S[f] # Absent}

\* C28: the merge removes no field.  A printer_status frame leaves every
\* field of the old snapshot that its data does not name in the new snapshot
\* with the old value, and across every step the names of the fields of each
\* printer's snapshot only grow.
C28_MergeKeepsFields ==
    [][/\ \A p \in PrinterIds : FieldNames(cache[p]) \subseteq FieldNames(cache'[p])
       /\ \A h \in 1..MaxHandles, frame \in Frames :
            (/\ frame.type = "printer_status"
             /\ frame.printer_id # 0
             /\ OnMessage(h, frame))
            => \A f \in FieldNames(cache[frame.printer_id]) \ FieldNames(frame.data) :
                  cache'[frame.printer_id][f] = cache[frame.printer_id][f]]_vars

\* A frame that names state alone has been merged into a snapshot that had
\* both fields, and a frame before it gave the wifi_signal.
C28_Witness ==
    /\ Len(statusFrames) = 2
    /\ lastFrame.type = "printer_status"
    /\ lastFrame.printer_id = 8
    /\ statusFrames[1].printer_id = 8
    /\ statusFrames[1].data = [wifi_signal |-> "-50", state |-> "IDLE"]
    /\ lastFrame.data = [wifi_signal |-> Absent, state |-> "RUNNING"]
    /\ cache[8] = [wifi_signal |-> "-50", state |-> "RUNNING"]

\* C29: while the scope is attached, the invalidation timeout is armed
\* exactly when the Set of pending invalidations is not empty.
C29_TimerArmedIffPending ==
    attached => ((flushTimer # NoTimer) <=> (pendingInvalidations # <<>>))

\* Key k has been requested and its invalidation is outstanding: it is in the
\* Set, or among the keys of an animation frame callback that has not run.
Waiting(k) ==
    \/ k \in Range(pendingInvalidations)
    \/ \E i \in 1..Len(rafQueue) : k \in Range(rafQueue[i].keys)

\* C30 as stated: while the scope stays attached, a key whose invalidation is
\* outstanding is eventually invalidated, whatever frames arrive meanwhile.
C30_EveryRequestEventuallyInvalidated ==
    \A k \in QueryKeys : \A n \in 0..MaxInvalidated :
        (Waiting(k) /\ invalidated[k] = n) ~> (invalidated[k] > n)

\* C30 as the code has it: if the requests pause long enough whenever keys
\* are in the Set, so that the invalidation timeout fires and drains it, then
\* a key whose invalidation is outstanding is eventually invalidated.
C30_InvalidatedIfRequestsPause ==
    ((pendingInvalidations # <<>>) ~> (pendingInvalidations = <<>>))
        => (\A k \in QueryKeys : \A n \in 0..MaxInvalidated :
               (Waiting(k) /\ invalidated[k] = n) ~> (invalidated[k] > n))

\* archives has been invalidated once and was requested again 50 ms ago.
C30_Witness ==
    /\ attached
    /\ invalidated["archives"] = 1
    /\ pendingInvalidations = <<"archives">>
    /\ flushTimer = Quantum
    /\ rafQueue = <<>>
    /\ lastRun.keys = <<"archives">>

\* C31: a frame that requests invalidations while a drained batch waits for
\* its animation frame and the Set is empty leaves that batch as it is, puts
\* its keys in the Set and arms the timeout; the next firing of the timeout
\* hands the keys of the Set to a callback of their own, behind the ones that
\* wait, and a callback invalidates the keys of its own batch only.
C31_RequestBetweenFlushAndFrame ==
    [][/\ \A h \in 1..MaxHandles, frame \in InvalidationFrames :
            (/\ rafQueue # <<>>
             /\ pendingInvalidations = <<>>
             /\ OnMessage(h, frame))
            => /\ rafQueue' = rafQueue
               /\ pendingInvalidations' = ClaimedKeys(frame.type)
               /\ flushTimer' = InvalidateDelay
               /\ invalidated' = invalidated
       /\ (FlushFire /\ rafQueue # <<>>)
            => /\ Len(rafQueue') = Len(rafQueue) + 1
               /\ \A i \in 1..Len(rafQueue) : rafQueue'[i] = rafQueue[i]
               /\ rafQueue'[Len(rafQueue')].keys = pendingInvalidations
               /\ pendingInvalidations # <<>>
       /\ RunFrame
            => /\ \A k \in QueryKeys :
                     invalidated'[k] = invalidated[k] + Occurrences(Head(rafQueue).keys, k)
               /\ rafQueue' = Tail(rafQueue)
               /\ pendingInvalidations' = pendingInvalidations]_vars

\* archives was drained by a flush; before its animation frame ran, an
\* archive_created frame requested archives and archiveStats, which the next
\* flush handed to a second callback.
C31_Witness ==
    /\ Len(rafQueue) = 2
    /\ rafQueue[1].keys = <<"archives">>
    /\ rafQueue[2].keys = <<"archives", "archiveStats">>
    /\ lastFrame.type = "archive_created"
    /\ pendingInvalidations = <<>>
    /\ invalidated = [k \in QueryKeys |-> 0]

\* C32: every socket that is CONNECTING or OPEN is the one wsRef names, and
\* the close event of a socket leaves alone the reference to another socket
\* that is CONNECTING or OPEN, and the published flag with it.
C32_RefNamesLiveHandle ==
    /\ [](\A h \in LiveHandles : wsRef = h)
    /\ [][\A h \in 1..MaxHandles :
            (OnClose(h) /\ wsRef # h /\ wsRef \in LiveHandles)
            => (wsRef' = wsRef /\ isConnected' = isConnected)]_vars

\* C33: a socket that fails or closes before it has opened is treated as one
\* that closes after it opened.  Its error event schedules nothing and starts
\* no ping interval; its close event arms the one reconnect timer of that
\* socket, drops the reference and leaves the published flag false; and once
\* the close event of a socket has been handled, no ping interval is started
\* and no further reconnect timer is armed for it.
C33_CloseWhileConnecting ==
    [][\A h \in 1..MaxHandles :
         (h \in HandleIds) =>
            /\ (handles[h].readyState = "CONNECTING" /\ OnError(h))
                 => /\ handles'[h].pingInterval = NoTimer
                    /\ UNCHANGED <<reconnectTimer, reconnectTimeoutRef, wsRef, isConnected>>
            /\ (handles[h].pingInterval = NoTimer /\ OnClose(h))
                 => /\ reconnectTimer[h] = NoTimer
                    /\ reconnectTimer' = [reconnectTimer EXCEPT ![h] = ReconnectDelay]
                    /\ wsRef' = 0
                    /\ isConnected' = FALSE
                    /\ handles'[h].pingInterval = NoTimer
            /\ handles[h].closeFired
                 => /\ handles'[h].pingInterval = NoTimer
                    /\ reconnectTimer'[h] \in {NoTimer} \cup 0..reconnectTimer[h]]_vars

\* The first socket has closed without having opened, and its reconnect
\* timer has just been armed.
C33_Witness ==
    /\ lastClose = "unopened"
    /\ lastLifecycle = "close"
    /\ Len(handles) = 1
    /\ handles[1] = [readyState |-> "CLOSED", pingInterval |-> NoTimer, closeFired |-> TRUE]
    /\ reconnectTimer[1] = ReconnectDelay
    /\ wsRef = 0
    /\ ~isConnected
    /\ attached

\* The sockets whose ping interval is armed.
ArmedPingIntervals == {h \in HandleIds : handles[h].pingInterval # NoTimer}

HasSignal(S) == S # Undefined /\ ~IsNullish(S["wifi_signal"])

\* C35: a snapshot that holds a wifi_signal that is not null holds one after
\* every step.
C35_StickyMonotone ==
    [][\A p \in PrinterIds : HasSignal(cache[p]) => HasSignal(cache'[p])]_vars

\* The snapshot of printer 7 held -42 when a frame gave wifi_signal as null,
\* and holds -42 after it.
C35_Witness ==
    /\ Len(statusFrames) = 2
    /\ statusFrames[1].printer_id = 7
    /\ statusFrames[1].data["wifi_signal"] = "-42"
    /\ lastFrame.type = "printer_status"
    /\ lastFrame.printer_id = 7
    /\ lastFrame.data # Undefined
    /\ lastFrame.data["wifi_signal"] = Null
    /\ cache[7]["wifi_signal"] = "-42"

\* C36: the merge is idempotent.  The snapshot that a printer_status frame
\* leaves is the one the updater would leave if given the same data again,
\* and a frame that is the same as the frame delivered before it changes no
\* snapshot.
C36_MergeIdempotent ==
    [][\A h \in 1..MaxHandles, frame \in Frames :
         (frame.type = "printer_status" /\ frame.printer_id # 0 /\ OnMessage(h, frame)) =>
            /\ Merge(cache'[frame.printer_id], frame.data) = cache'[frame.printer_id]
            /\ Merge(Merge(cache[frame.printer_id], frame.data), frame.data)
                  = Merge(cache[frame.printer_id], frame.data)
            /\ (lastFrame = frame) => (cache' = cache)]_vars

\* The same frame, whose wifi_signal is null, has been delivered twice in a
\* row for printer 7.
C36_Witness ==
    /\ Len(statusFrames) = 2
    /\ statusFrames[1] = statusFrames[2]
    /\ statusFrames[2].printer_id = 7
    /\ statusFrames[2].data = [wifi_signal |-> Null, state |-> "IDLE"]
    /\ lastFrame.data = statusFrames[2].data
    /\ cache[7] = [wifi_signal |-> Null, state |-> "IDLE"]

\* C37: a printer_status frame without printer_id changes no snapshot and
\* creates none, whatever its data is, and requests no invalidation.
C37_StatusWithoutPrinterId ==
    [][\A h \in 1..MaxHandles, frame \in Frames :
         (frame.type = "printer_status" /\ frame.printer_id = 0 /\ OnMessage(h, frame)) =>
            /\ cache' = cache
            /\ \A p \in PrinterIds : cache[p] = Undefined => cache'[p] = Undefined
            /\ UNCHANGED coalescerVars]_vars

\* A printer_status frame without printer_id, with data for both fields, has
\* arrived after a frame for printer 7; the snapshot of printer 7 is the one
\* that frame left and printer 8 has no snapshot.
C37_Witness ==
    /\ frameCount = 2
    /\ lastFrame.type = "printer_status"
    /\ lastFrame.printer_id = 0
    /\ lastFrame.data = [wifi_signal |-> "-50", state |-> "RUNNING"]
    /\ Len(statusFrames) = 1
    /\ cache[7] = [wifi_signal |-> "-42", state |-> "IDLE"]
    /\ cache[8] = Undefined

\* C38: the handling of an inbound frame of any kind and type leaves the
\* connection side as it is: the sockets with their ping intervals, the
\* reference, the published flag and the reconnect timers are unchanged,
\* nothing is transmitted, and the scope stays attached or detached.
C38_FrameLeavesConnectionAlone ==
    [][\A h \in 1..MaxHandles, frame \in Frames :
         OnMessage(h, frame) =>
            /\ handles' = handles
            /\ wsRef' = wsRef
            /\ isConnected' = isConnected
            /\ reconnectTimer' = reconnectTimer
            /\ reconnectTimeoutRef' = reconnectTimeoutRef
            /\ sent' = sent
            /\ attached' = attached]_vars

\* A frame that is not JSON has been handled after another frame on the open
\* socket, whose ping interval is armed; nothing has been sent and no reconnect
\* timer is armed.
C38_Witness ==
    /\ frameCount = 2
    /\ lastFrame.kind = "malformed"
    /\ wsRef = 1
    /\ isConnected
    /\ handles = <<[readyState |-> "OPEN", pingInterval |-> PingInterval, closeFired |-> FALSE]>>
    /\ ArmedReconnects = {}
    /\ sent = <<>>

====
